---- MODULE Spec2Model ----
(***************************************************************************)
(* CSAT-Agent: the LangGraph pipeline of src/csat_agent/graph.            *)
(*                                                                         *)
(* `state` is the AgentState dictionary, `stage` is the node the executor  *)
(* runs next ("END" after a terminal node), `trace` is the sequence of     *)
(* nodes that have run.  Every node is an operator from the state (and the *)
(* outcome of its collaborator call) to a patch; an action runs the node,  *)
(* merges the patch and follows the edge of builder.py.  `calls` is the    *)
(* sequence of collaborator calls made so far, each with its outcome, and  *)
(* `last_patch` is the patch the last node returned.                       *)
(***************************************************************************)
EXTENDS Integers, Sequences, FiniteSets, TLC

VARIABLES state, stage, trace, calls, last_patch

vars == <<state, stage, trace, calls, last_patch>>

(***************************************************************************)
(* Bounds of the model.                                                    *)
(***************************************************************************)
MaxRetriesBound == 3

\* longest run: 6 stages, MaxRetriesBound cycles of 3, one terminal stage
StepCap == 8 + 3 * MaxRetriesBound

(***************************************************************************)
(* Python values.                                                          *)
(***************************************************************************)
None == "<None>"

EmptyDict == [k \in {} |-> k]

Get(d, k, default) == IF k \in DOMAIN d THEN d[k] ELSE default

NoAnswer == [kind |-> "none"]

\* int(candidate): [ok |-> TRUE, value |-> n], or the exception it raises.
\* A float is kept as a number of halves; int() truncates towards zero.
int(candidate) ==
    CASE candidate.kind = "int"    -> [ok |-> TRUE, value |-> candidate.val]
      [] candidate.kind = "numstr" -> [ok |-> TRUE, value |-> candidate.val]
      [] candidate.kind = "float"  ->
            [ok |-> TRUE,
             value |-> IF candidate.halves >= 0
                       THEN candidate.halves \div 2
                       ELSE -((-candidate.halves) \div 2)]
      [] candidate.kind = "expr"   -> [ok |-> FALSE, error |-> "ValueError"]
      [] candidate.kind = "list"   -> [ok |-> FALSE, error |-> "TypeError"]
      [] OTHER                     -> [ok |-> FALSE, error |-> "TypeError"]

RECURSIVE Join(_, _)
Join(sep, strs) ==
    IF strs = <<>> THEN ""
    ELSE IF Len(strs) = 1 THEN strs[1]
    ELSE strs[1] \o sep \o Join(sep, Tail(strs))

IsPrefix(s, t) == Len(s) <= Len(t) /\ SubSeq(t, 1, Len(s)) = s

Count(name, seq) == Cardinality({i \in 1..Len(seq) : seq[i] = name})

(***************************************************************************)
(* The file system and the inputs of a run.                                *)
(***************************************************************************)
ExistingFiles == {"problem.pdf"}

InputPaths == {"problem.pdf", "missing.pdf"}

MaxRetriesInputs == 0..MaxRetriesBound

(***************************************************************************)
(* State model.                                                            *)
(***************************************************************************)
\* variant: a run starts with an empty verification reason
make_initial_state_blank_reason(input_pdf_path, max_retries) ==
    [run_id |-> "run-1",
     input_pdf_path |-> input_pdf_path,
     pdf_type |-> "unknown",
     raw_text_by_page |-> EmptyDict,
     ocr_text_by_page |-> EmptyDict,
     latex_snippets |-> <<>>,
     normalized_problem |-> "",
     parse_result |-> EmptyDict,
     metadata |-> EmptyDict,
     plan_steps |-> <<>>,
     tool_logs |-> <<>>,
     candidate_answer |-> NoAnswer,
     verification |-> [ok |-> FALSE, reason |-> ""],
     final_response |-> "",
     retries |-> 0,
     max_retries |-> max_retries,
     quality_signals |-> EmptyDict,
     errors |-> <<>>]

make_initial_state(input_pdf_path, max_retries) ==
    [run_id |-> "run-1",
     input_pdf_path |-> input_pdf_path,
     pdf_type |-> "unknown",
     raw_text_by_page |-> EmptyDict,
     ocr_text_by_page |-> EmptyDict,
     latex_snippets |-> <<>>,
     normalized_problem |-> "",
     parse_result |-> EmptyDict,
     metadata |-> EmptyDict,
     plan_steps |-> <<>>,
     tool_logs |-> <<>>,
     candidate_answer |-> NoAnswer,
     verification |-> [ok |-> FALSE, reason |-> "not_verified"],
     final_response |-> "",
     retries |-> 0,
     max_retries |-> max_retries,
     quality_signals |-> EmptyDict,
     errors |-> <<>>]

\* variant: on a key collision the value of the state is kept
Merge_first_write_wins(s, patch) ==
    [k \in DOMAIN s \cup DOMAIN patch |->
        IF k \in DOMAIN s THEN s[k] ELSE patch[k]]

\* {**state, **patch}: keys of the patch overwrite, all others are kept.
Merge(s, patch) ==
    [k \in DOMAIN s \cup DOMAIN patch |->
        IF k \in DOMAIN patch THEN patch[k] ELSE s[k]]

\* variant: the new entry is put in front of the list
_append_tool_log_prepend(existing, tool_name, payload, success, error) ==
    <<[tool |-> tool_name, payload |-> payload,
       success |-> success, error |-> error]>> \o existing

_append_tool_log(existing, tool_name, payload, success, error) ==
    Append(existing,
           [tool |-> tool_name, payload |-> payload,
            success |-> success, error |-> error])

(***************************************************************************)
(* Strings: str.strip, str.lower, `in`, re.sub, re.search.                 *)
(***************************************************************************)
Ch(s, i) == SubSeq(s, i, i)

IsSpace(c) == c \in {" ", "\t", "\n"}

\* F(x) with x evaluated once, before F is applied
Apply(F(_), x) == CHOOSE r \in {F(v) : v \in {x}} : TRUE

\* index of the first character at or after i that is not white space
RECURSIVE SkipSpace(_, _)
SkipSpace(s, i) ==
    IF i <= Len(s) /\ IsSpace(Ch(s, i)) THEN SkipSpace(s, i + 1) ELSE i

\* index of the last character at or before i that is not white space
RECURSIVE SkipSpaceBack(_, _)
SkipSpaceBack(s, i) ==
    IF i >= 1 /\ IsSpace(Ch(s, i)) THEN SkipSpaceBack(s, i - 1) ELSE i

Strip(s) == SubSeq(s, SkipSpace(s, 1), SkipSpaceBack(s, Len(s)))

Contains(s, sub) ==
    \E i \in 1..(Len(s) - Len(sub) + 1) : SubSeq(s, i, i + Len(sub) - 1) = sub

\* str.lower on the letters that occur in upper case in RawTexts and OcrTexts.
LowerChar(c) ==
    CASE c = "D" -> "d" [] c = "E" -> "e" [] c = "I" -> "i"
      [] c = "S" -> "s" [] c = "F" -> "f" [] c = "X" -> "x"
      [] OTHER -> c

RECURSIVE LowerFrom(_, _)
LowerFrom(s, i) ==
    IF i > Len(s) THEN "" ELSE LowerChar(Ch(s, i)) \o LowerFrom(s, i + 1)

Lower(s) == LowerFrom(s, 1)

\* re.sub(r"[ \t]+", " ", s)
RECURSIVE CollapseBlanksFrom(_, _)
CollapseBlanksFrom(s, i) ==
    IF i > Len(s) THEN ""
    ELSE IF Ch(s, i) \in {" ", "\t"}
         THEN IF i < Len(s) /\ Ch(s, i + 1) \in {" ", "\t"}
              THEN CollapseBlanksFrom(s, i + 1)
              ELSE " " \o CollapseBlanksFrom(s, i + 1)
         ELSE Ch(s, i) \o CollapseBlanksFrom(s, i + 1)

CollapseBlanks(s) == CollapseBlanksFrom(s, 1)

\* re.sub(r"\n{3,}", "\n\n", s)
RECURSIVE CollapseNewlinesFrom(_, _)
CollapseNewlinesFrom(s, i) ==
    IF i > Len(s) THEN ""
    ELSE IF i + 2 <= Len(s) /\ SubSeq(s, i, i + 2) = "\n\n\n"
         THEN CollapseNewlinesFrom(s, i + 1)
         ELSE Ch(s, i) \o CollapseNewlinesFrom(s, i + 1)

CollapseNewlines(s) == CollapseNewlinesFrom(s, 1)

\* the longest run of non-newline characters that starts at i
RECURSIVE LineFrom(_, _)
LineFrom(s, i) ==
    IF i > Len(s) \/ Ch(s, i) = "\n" THEN ""
    ELSE Ch(s, i) \o LineFrom(s, i + 1)

MinOf(S) == CHOOSE x \in S : \A y \in S : x <= y

MaxOf(S) == CHOOSE x \in S : \A y \in S : y <= x

\* re.search(r"f\(x\)\s*=\s*([^\n]+)", s) tried at position i: the group,
\* or None.  j is the position of "=", k the first position after the white
\* space that follows it.  When only white space follows "=", the greedy \s*
\* gives back the last blank that is not a newline and the group starts
\* there.
FxGroup(s, j, k) ==
    IF k <= Len(s) THEN LineFrom(s, k)
    ELSE Apply(LAMBDA back : IF back # {} THEN LineFrom(s, MaxOf(back)) ELSE None,
               {b \in (j + 1)..(k - 1) : Ch(s, b) # "\n"})

FxAfterName(s, j) ==
    IF j > Len(s) \/ Ch(s, j) # "=" THEN None
    ELSE Apply(LAMBDA k : FxGroup(s, j, k), SkipSpace(s, j + 1))

FxMatchAt(s, i) ==
    IF i + 3 > Len(s) \/ SubSeq(s, i, i + 3) # "f(x)" THEN None
    ELSE Apply(LAMBDA j : FxAfterName(s, j), SkipSpace(s, i + 4))

FxSearch(s) ==
    Apply(LAMBDA hits : IF hits = {} THEN None
                        ELSE Apply(LAMBDA i : FxMatchAt(s, i), MinOf(hits)),
          {i \in 1..Len(s) : FxMatchAt(s, i) # None})

(***************************************************************************)
(* Default collaborators of NodeDependencies: parser, planner, explainer.  *)
(***************************************************************************)
OperationOf(lowered) ==
    IF Contains(lowered, "derivative") \/ Contains(lowered, "d/dx")
    THEN "differentiate"
    ELSE IF Contains(lowered, "integral") THEN "integrate"
    ELSE IF Contains(lowered, "equation") \/ Contains(lowered, "solve")
         THEN "solve_equation"
         ELSE "simplify"

ExpressionOf(match) == IF match # None THEN Strip(match) ELSE None

ParseText(text) ==
    [operation |-> Apply(OperationOf, Apply(Lower, text)),
     variable |-> "x",
     expression |-> Apply(ExpressionOf, Apply(FxSearch, text)),
     constraints |-> <<"0 <= answer <= 999", "answer is integer">>]

_default_parse(payload) == Apply(ParseText, Get(payload, "text", ""))

_default_plan(payload) ==
    LET parse_result == Get(payload, "parse_result", EmptyDict)
        operation == Get(parse_result, "operation", "simplify")
    IN [steps |->
          <<"Normalize extracted expressions and constraints.",
            "Run main math tool operation: " \o operation \o ".",
            "Apply domain/integer/range constraints if present.",
            "Substitute result back into constraints for verification.">>]

\* str(answer) of the f-string
StrOfAnswer(answer) ==
    CASE answer.kind = "none"   -> "None"
      [] answer.kind = "int"    -> ToString(answer.val)
      [] answer.kind = "numstr" -> ToString(answer.val)
      [] answer.kind = "expr"   -> answer.text
      [] answer.kind = "list"   -> "['" \o answer.text \o "']"
      [] answer.kind = "float"  ->
            (IF answer.halves < 0 THEN "-" ELSE "")
               \o ToString((IF answer.halves < 0 THEN -answer.halves
                                                  ELSE answer.halves) \div 2)
               \o (IF answer.halves % 2 = 0 THEN ".0" ELSE ".5")
      [] OTHER                  -> "?"

\* variant: the answer is left out of the text
_default_explain_without_answer(payload) ==
    LET verification == Get(payload, "verification", EmptyDict)
        ok == Get(verification, "ok", FALSE)
        reason == Get(verification, "reason", "no_reason")
    IN IF ok THEN "Verification: passed"
       ELSE "Verification failed: " \o reason

_default_explain(payload) ==
    LET answer == Get(payload, "candidate_answer", NoAnswer)
        verification == Get(payload, "verification", EmptyDict)
        ok == Get(verification, "ok", FALSE)
        reason == Get(verification, "reason", "no_reason")
    IN IF ok
       THEN "Candidate answer: " \o StrOfAnswer(answer)
               \o "\nVerification: passed"
       ELSE "Candidate answer: " \o StrOfAnswer(answer)
               \o "\nVerification failed: " \o reason

(***************************************************************************)
(* Collaborator outcomes: the value a call returns, or the exception it    *)
(* raises.  The document service depends on the file, the math service on  *)
(* sympy; both are chosen nondeterministically from these sets.            *)
(***************************************************************************)
Returns(v) == [ok |-> TRUE, value |-> v]

Raises(msg) == [ok |-> FALSE, error |-> msg]

NoCall == [ok |-> TRUE, value |-> NoAnswer]

PdfTypes == {"digital", "scanned", "mixed", "unknown"}

DetectOutcomes == {Returns(k) : k \in PdfTypes} \cup {Raises("cannot open file")}

RawTexts ==
    {EmptyDict,
     (1 :> "Derivative of f(x) = x**2"),
     (1 :> "solve  f(x) = x - 3 " @@ 2 :> " "),
     (1 :> "no formula")}

OcrTexts ==
    {(1 :> ""),
     (1 :> "f(x) = 7"),
     (1 :> "integral" @@ 2 :> "f(x) =\t5\n\n\nend")}

ExtractOutcomes ==
    {Returns(t) : t \in RawTexts} \cup {Raises("PyMuPDF is not installed.")}

OcrOutcomes ==
    {Returns(t) : t \in OcrTexts}
       \cup {Raises("OCR dependencies are not fully installed.")}

\* DocumentToolWrapper.extract_math_latex is a placeholder.
extract_math_latex(pdf_path) == <<>>

\* What MathToolWrapper may return: solve_equation a list of strings, the
\* other operations one string (of an integer or of an expression).
MathResults(fn) ==
    IF fn = "solve_equation"
    THEN {[kind |-> "list", text |-> "3"]}
    ELSE {[kind |-> "numstr", val |-> 7],
          [kind |-> "numstr", val |-> 1000],
          [kind |-> "expr", text |-> "2*x"]}

MathOutcomes(fn) ==
    {Returns(v) : v \in MathResults(fn)} \cup {Raises("SympifyError")}

(***************************************************************************)
(* DocumentToolWrapper.merge_and_normalize                                 *)
(***************************************************************************)
RECURSIVE SortedSeq(_)
SortedSeq(S) ==
    IF S = {} THEN <<>>
    ELSE LET m == MinOf(S)
         IN <<m>> \o SortedSeq(S \ {m})

RECURSIVE MergedPages(_, _, _)
MergedPages(page_numbers, raw_text_by_page, ocr_text_by_page) ==
    IF page_numbers = <<>> THEN <<>>
    ELSE LET page == Head(page_numbers)
             digital == Apply(Strip, Get(raw_text_by_page, page, ""))
             scanned == Apply(Strip, Get(ocr_text_by_page, page, ""))
             merged == IF Len(digital) >= Len(scanned) THEN digital ELSE scanned
             rest == MergedPages(Tail(page_numbers), raw_text_by_page,
                                 ocr_text_by_page)
         IN IF merged # "" THEN <<merged>> \o rest ELSE rest

RECURSIVE LatexLines(_)
LatexLines(latex_snippets) ==
    IF latex_snippets = <<>> THEN <<>>
    ELSE LET latex == Get(Head(latex_snippets), "latex", "")
         IN IF latex # "" /\ latex # None
            THEN <<latex>> \o LatexLines(Tail(latex_snippets))
            ELSE LatexLines(Tail(latex_snippets))

merge_and_normalize_text(raw_text_by_page, ocr_text_by_page, latex_snippets) ==
    LET page_numbers ==
            SortedSeq(DOMAIN raw_text_by_page \cup DOMAIN ocr_text_by_page)
        merged_pages ==
            MergedPages(page_numbers, raw_text_by_page, ocr_text_by_page)
        merged_text == Join("\n", merged_pages \o LatexLines(latex_snippets))
    IN Apply(Strip, Apply(CollapseNewlines, Apply(CollapseBlanks, merged_text)))

\* len([text for text in by_page.values() if text.strip()])
NonBlankPages(by_page) ==
    Cardinality({pg \in DOMAIN by_page : Strip(by_page[pg]) # ""})

Truthy(v) == v # None /\ v # ""

(***************************************************************************)
(* GraphNodes: each node maps the state to a patch.                        *)
(***************************************************************************)
ingest_pdf(s) ==
    IF s.input_pdf_path \notin ExistingFiles
    THEN [errors |->
             Append(Get(s, "errors", <<>>),
                    "PDF file not found: " \o s.input_pdf_path),
          final_response |-> "Input PDF file was not found."]
    ELSE EmptyDict

\* variant: a failed detection also writes the user-facing response
detect_pdf_type_reports_failure(s, out) ==
    IF out.ok
    THEN [pdf_type |-> out.value,
          tool_logs |->
             _append_tool_log(Get(s, "tool_logs", <<>>), "detect_pdf_type",
                 [input_pdf_path |-> s.input_pdf_path, pdf_type |-> out.value],
                 TRUE, None)]
    ELSE [tool_logs |->
             _append_tool_log(Get(s, "tool_logs", <<>>), "detect_pdf_type",
                 [input_pdf_path |-> s.input_pdf_path], FALSE, out.error),
          errors |-> Append(Get(s, "errors", <<>>), out.error),
          final_response |-> "Could not read the PDF file."]

detect_pdf_type(s, out) ==
    IF out.ok
    THEN [pdf_type |-> out.value,
          tool_logs |->
             _append_tool_log(Get(s, "tool_logs", <<>>), "detect_pdf_type",
                 [input_pdf_path |-> s.input_pdf_path, pdf_type |-> out.value],
                 TRUE, None)]
    ELSE [tool_logs |->
             _append_tool_log(Get(s, "tool_logs", <<>>), "detect_pdf_type",
                 [input_pdf_path |-> s.input_pdf_path], FALSE, out.error),
          errors |-> Append(Get(s, "errors", <<>>), out.error)]

extract_text(s, out) ==
    IF out.ok
    THEN [raw_text_by_page |-> out.value,
          quality_signals |->
             Merge(Get(s, "quality_signals", EmptyDict),
                   [digital_pages |-> NonBlankPages(out.value)]),
          tool_logs |->
             _append_tool_log(Get(s, "tool_logs", <<>>), "extract_text",
                 [pages |-> Cardinality(DOMAIN out.value)], TRUE, None)]
    ELSE [tool_logs |->
             _append_tool_log(Get(s, "tool_logs", <<>>), "extract_text",
                 [input_pdf_path |-> s.input_pdf_path], FALSE, out.error),
          errors |-> Append(Get(s, "errors", <<>>), out.error)]

\* variant: a failed call is logged but its message is not added to errors
ocr_text_error_dropped(s, out) ==
    IF out.ok
    THEN [ocr_text_by_page |-> out.value,
          quality_signals |->
             Merge(Get(s, "quality_signals", EmptyDict),
                   [ocr_pages |-> NonBlankPages(out.value)]),
          tool_logs |->
             _append_tool_log(Get(s, "tool_logs", <<>>), "ocr_text",
                 [pages |-> Cardinality(DOMAIN out.value)], TRUE, None)]
    ELSE [tool_logs |->
             _append_tool_log(Get(s, "tool_logs", <<>>), "ocr_text",
                 [input_pdf_path |-> s.input_pdf_path], FALSE, out.error)]

ocr_text(s, out) ==
    IF out.ok
    THEN [ocr_text_by_page |-> out.value,
          quality_signals |->
             Merge(Get(s, "quality_signals", EmptyDict),
                   [ocr_pages |-> NonBlankPages(out.value)]),
          tool_logs |->
             _append_tool_log(Get(s, "tool_logs", <<>>), "ocr_text",
                 [pages |-> Cardinality(DOMAIN out.value)], TRUE, None)]
    ELSE [tool_logs |->
             _append_tool_log(Get(s, "tool_logs", <<>>), "ocr_text",
                 [input_pdf_path |-> s.input_pdf_path], FALSE, out.error),
          errors |-> Append(Get(s, "errors", <<>>), out.error)]

\* variant: ocr_text is run on the incoming state, not on the merged one
extract_text_and_ocr_unmerged(s, text_out, ocr_out) ==
    LET text_updates == extract_text(s, text_out)
        ocr_updates == ocr_text(s, ocr_out)
    IN [raw_text_by_page |->
           Get(text_updates, "raw_text_by_page",
               Get(s, "raw_text_by_page", EmptyDict)),
        ocr_text_by_page |->
           Get(ocr_updates, "ocr_text_by_page",
               Get(s, "ocr_text_by_page", EmptyDict)),
        quality_signals |->
           Get(ocr_updates, "quality_signals",
               Get(text_updates, "quality_signals",
                   Get(s, "quality_signals", EmptyDict))),
        tool_logs |->
           Get(ocr_updates, "tool_logs",
               Get(text_updates, "tool_logs", Get(s, "tool_logs", <<>>))),
        errors |->
           Get(ocr_updates, "errors",
               Get(text_updates, "errors", Get(s, "errors", <<>>)))]

extract_text_and_ocr(s, text_out, ocr_out) ==
    LET text_updates == extract_text(s, text_out)
        merged_state == Merge(s, text_updates)
        ocr_updates == ocr_text(merged_state, ocr_out)
    IN [raw_text_by_page |->
           Get(text_updates, "raw_text_by_page",
               Get(s, "raw_text_by_page", EmptyDict)),
        ocr_text_by_page |->
           Get(ocr_updates, "ocr_text_by_page",
               Get(s, "ocr_text_by_page", EmptyDict)),
        quality_signals |->
           Get(ocr_updates, "quality_signals",
               Get(text_updates, "quality_signals",
                   Get(s, "quality_signals", EmptyDict))),
        tool_logs |->
           Get(ocr_updates, "tool_logs",
               Get(text_updates, "tool_logs", Get(s, "tool_logs", <<>>))),
        errors |->
           Get(ocr_updates, "errors",
               Get(text_updates, "errors", Get(s, "errors", <<>>)))]

\* variant: the call is made but no entry is logged
math_extraction_unlogged(s) ==
    [latex_snippets |-> extract_math_latex(s.input_pdf_path)]

math_extraction(s) ==
    LET snippets == extract_math_latex(s.input_pdf_path)
    IN [latex_snippets |-> snippets,
        tool_logs |->
           _append_tool_log(Get(s, "tool_logs", <<>>), "extract_math_latex",
               [snippet_count |-> Len(snippets)], TRUE, None)]

merge_and_normalize(s) ==
    [normalized_problem |->
        merge_and_normalize_text(Get(s, "raw_text_by_page", EmptyDict),
                                 Get(s, "ocr_text_by_page", EmptyDict),
                                 Get(s, "latex_snippets", <<>>))]

parse_problem(s) ==
    [parse_result |-> _default_parse([text |-> Get(s, "normalized_problem", "")]),
     metadata |->
        Merge(Get(s, "metadata", EmptyDict),
              [answer_format |-> "integer", range |-> <<0, 999>>])]

\* variant: planning also rewrites the retry budget
plan_solution_resets_budget(s) ==
    LET plan == _default_plan([parse_result |-> Get(s, "parse_result", EmptyDict),
                               retries |-> Get(s, "retries", 0)])
    IN [plan_steps |-> Get(plan, "steps", <<>>),
        max_retries |-> Get(s, "retries", 0) + 1]

plan_solution(s) ==
    LET plan == _default_plan([parse_result |-> Get(s, "parse_result", EmptyDict),
                               retries |-> Get(s, "retries", 0)])
    IN [plan_steps |-> Get(plan, "steps", <<>>)]

\* variant: an integral is handed to simplify_expr
MathFn_integrate_simplified(operation) ==
    CASE operation = "differentiate"  -> "differentiate"
      [] operation = "solve_equation" -> "solve_equation"
      [] OTHER                        -> "simplify_expr"

\* the MathToolWrapper method solve_with_tools calls for an operation
MathFn(operation) ==
    CASE operation = "differentiate"  -> "differentiate"
      [] operation = "integrate"      -> "integrate_definite"
      [] operation = "solve_equation" -> "solve_equation"
      [] OTHER                        -> "simplify_expr"

\* variant: after a failed verification the previous answer is bumped by one
solve_with_tools_retry_aware(s, out) ==
    LET parse_result == Get(s, "parse_result", EmptyDict)
        operation == Get(parse_result, "operation", "simplify")
        expression == Get(parse_result, "expression", None)
        payload == [operation |-> operation, expression |-> expression]
    IN IF Truthy(expression) /\ ~out.ok
       THEN [tool_logs |->
                _append_tool_log(Get(s, "tool_logs", <<>>), "solve_with_tools",
                                 payload, FALSE, out.error),
             errors |-> Append(Get(s, "errors", <<>>), out.error)]
       ELSE LET candidate_answer ==
                    IF Get(s, "retries", 0) > 0
                    THEN [kind |-> "int", val |-> Get(s, "retries", 0)]
                    ELSE IF Truthy(expression) THEN out.value ELSE NoAnswer
            IN [candidate_answer |-> candidate_answer,
                tool_logs |->
                   _append_tool_log(Get(s, "tool_logs", <<>>),
                       "solve_with_tools",
                       Merge(payload, [candidate_answer |-> candidate_answer]),
                       TRUE, None)]

\* `out` is the outcome of the math call; it is read only when the
\* expression is truthy, the only case in which a call is made.
solve_with_tools(s, out) ==
    LET parse_result == Get(s, "parse_result", EmptyDict)
        operation == Get(parse_result, "operation", "simplify")
        expression == Get(parse_result, "expression", None)
        payload == [operation |-> operation, expression |-> expression]
    IN IF Truthy(expression) /\ ~out.ok
       THEN [tool_logs |->
                _append_tool_log(Get(s, "tool_logs", <<>>), "solve_with_tools",
                                 payload, FALSE, out.error),
             errors |-> Append(Get(s, "errors", <<>>), out.error)]
       ELSE LET candidate_answer ==
                    IF Truthy(expression) THEN out.value ELSE NoAnswer
            IN [candidate_answer |-> candidate_answer,
                tool_logs |->
                   _append_tool_log(Get(s, "tool_logs", <<>>),
                       "solve_with_tools",
                       Merge(payload, [candidate_answer |-> candidate_answer]),
                       TRUE, None)]

\* variant: the range check excludes the two ends of the range
verify_solution_exclusive_range(s) ==
    LET candidate == Get(s, "candidate_answer", NoAnswer)
        metadata == Get(s, "metadata", EmptyDict)
        retries == Get(s, "retries", 0)
        coerced == int(candidate)
        range == Get(metadata, "range", <<0, 999>>)
        low == range[1]
        high == range[2]
    IN IF candidate = NoAnswer
       THEN [verification |-> [ok |-> FALSE, reason |-> "candidate_answer_missing"],
             retries |-> retries + 1]
       ELSE IF /\ Get(metadata, "answer_format", None) = "integer"
               /\ coerced.ok
               /\ ~(low < coerced.value /\ coerced.value < high)
            THEN [verification |->
                     [ok |-> FALSE,
                      reason |-> "answer_out_of_range_" \o ToString(low)
                                    \o "_" \o ToString(high)],
                  retries |-> retries + 1]
            ELSE [verification |-> [ok |-> TRUE, reason |-> "passed"]]

\* variant: a missing candidate is reported without counting a retry
verify_solution_missing_uncounted(s) ==
    LET candidate == Get(s, "candidate_answer", NoAnswer)
        metadata == Get(s, "metadata", EmptyDict)
        retries == Get(s, "retries", 0)
        coerced == int(candidate)
        range == Get(metadata, "range", <<0, 999>>)
        low == range[1]
        high == range[2]
    IN IF candidate = NoAnswer
       THEN [verification |-> [ok |-> FALSE, reason |-> "candidate_answer_missing"]]
       ELSE IF /\ Get(metadata, "answer_format", None) = "integer"
               /\ coerced.ok
               /\ ~(low <= coerced.value /\ coerced.value <= high)
            THEN [verification |->
                     [ok |-> FALSE,
                      reason |-> "answer_out_of_range_" \o ToString(low)
                                    \o "_" \o ToString(high)],
                  retries |-> retries + 1]
            ELSE [verification |-> [ok |-> TRUE, reason |-> "passed"]]

verify_solution(s) ==
    LET candidate == Get(s, "candidate_answer", NoAnswer)
        metadata == Get(s, "metadata", EmptyDict)
        retries == Get(s, "retries", 0)
        coerced == int(candidate)
        range == Get(metadata, "range", <<0, 999>>)
        low == range[1]
        high == range[2]
    IN IF candidate = NoAnswer
       THEN [verification |-> [ok |-> FALSE, reason |-> "candidate_answer_missing"],
             retries |-> retries + 1]
       ELSE IF /\ Get(metadata, "answer_format", None) = "integer"
               /\ coerced.ok
               /\ ~(low <= coerced.value /\ coerced.value <= high)
            THEN [verification |->
                     [ok |-> FALSE,
                      reason |-> "answer_out_of_range_" \o ToString(low)
                                    \o "_" \o ToString(high)],
                  retries |-> retries + 1]
            ELSE [verification |-> [ok |-> TRUE, reason |-> "passed"]]

explain(s) ==
    [final_response |->
        _default_explain(
            [candidate_answer |-> Get(s, "candidate_answer", NoAnswer),
             verification |-> Get(s, "verification", EmptyDict),
             plan_steps |-> Get(s, "plan_steps", <<>>)])]

\* variant: the recorded errors are preferred to the verification reason
finalize_failure_errors_first(s) ==
    LET verification_reason == Get(Get(s, "verification", EmptyDict), "reason", None)
        error_reason ==
            IF Get(s, "errors", <<>>) # <<>>
            THEN Join("; ", Get(s, "errors", <<>>)) ELSE None
        reason == IF Truthy(error_reason) THEN error_reason
                  ELSE IF Truthy(verification_reason) THEN verification_reason
                  ELSE "unknown_failure"
    IN [final_response |-> "Failed to solve problem. reason=" \o reason]

finalize_failure(s) ==
    LET verification_reason == Get(Get(s, "verification", EmptyDict), "reason", None)
        error_reason ==
            IF Get(s, "errors", <<>>) # <<>>
            THEN Join("; ", Get(s, "errors", <<>>)) ELSE None
        reason == IF Truthy(verification_reason) THEN verification_reason
                  ELSE IF Truthy(error_reason) THEN error_reason
                  ELSE "unknown_failure"
    IN [final_response |-> "Failed to solve problem. reason=" \o reason]

(***************************************************************************)
(* Routing functions and the edge table of build_graph.                    *)
(***************************************************************************)
\* variant: the errors of the state are not looked at
route_after_ingest_ignores_errors(s) == "detect_pdf_type"

route_after_ingest(s) ==
    IF Get(s, "errors", <<>>) # <<>> THEN "finalize_failure"
    ELSE "detect_pdf_type"

\* variant: every type that is not scanned is read as a digital document
route_pdf_type_default_text(s) ==
    LET pdf_type == Get(s, "pdf_type", "unknown")
    IN IF pdf_type = "scanned" THEN "ocr_text" ELSE "extract_text"

route_pdf_type(s) ==
    LET pdf_type == Get(s, "pdf_type", "unknown")
    IN IF pdf_type = "digital" THEN "extract_text"
       ELSE IF pdf_type = "scanned" THEN "ocr_text"
       ELSE "extract_text_and_ocr"

\* variant: the retry budget is compared with <=
route_after_verify_inclusive(s) ==
    LET verification == Get(s, "verification", EmptyDict)
        retries == Get(s, "retries", 0)
        max_retries == Get(s, "max_retries", 2)
    IN IF Get(verification, "ok", FALSE) THEN "explain"
       ELSE IF retries <= max_retries THEN "replan"
       ELSE "finalize_failure"

route_after_verify(s) ==
    LET verification == Get(s, "verification", EmptyDict)
        retries == Get(s, "retries", 0)
        max_retries == Get(s, "max_retries", 2)
    IN IF Get(verification, "ok", FALSE) THEN "explain"
       ELSE IF retries < max_retries THEN "replan"
       ELSE "finalize_failure"

AfterIngestEdges ==
    [detect_pdf_type |-> "detect_pdf_type",
     finalize_failure |-> "finalize_failure"]

PdfTypeEdges ==
    [extract_text |-> "extract_text",
     ocr_text |-> "ocr_text",
     extract_text_and_ocr |-> "extract_text_and_ocr"]

\* variant: an exhausted retry budget is routed to explain
AfterVerifyEdges_failure_explained ==
    [explain |-> "explain",
     replan |-> "plan_solution",
     finalize_failure |-> "explain"]

AfterVerifyEdges ==
    [explain |-> "explain",
     replan |-> "plan_solution",
     finalize_failure |-> "finalize_failure"]

StaticEdges ==
    [extract_text |-> "math_extraction",
     ocr_text |-> "math_extraction",
     extract_text_and_ocr |-> "math_extraction",
     math_extraction |-> "merge_and_normalize",
     merge_and_normalize |-> "parse_problem",
     parse_problem |-> "plan_solution",
     plan_solution |-> "solve_with_tools",
     solve_with_tools |-> "verify_solution",
     explain |-> "END",
     finalize_failure |-> "END"]

TerminalNodes == {"explain", "finalize_failure"}

Init ==
    /\ \E p \in InputPaths, m \in MaxRetriesInputs :
          state = make_initial_state(p, m)
    /\ stage = "ingest_pdf"
    /\ trace = <<>>
    /\ calls = <<>>
    /\ last_patch = EmptyDict

(***************************************************************************)
(* The executor: run the node `stage`, merge its patch, follow its edge.   *)
(***************************************************************************)
Call(name, out) == [call |-> name, out |-> out]

Step(node, patch, made) ==
    /\ stage = node
    /\ Len(trace) < StepCap
    /\ state' = Merge(state, patch)
    /\ trace' = Append(trace, node)
    /\ calls' = calls \o made
    /\ last_patch' = patch

IngestPdf ==
    /\ Step("ingest_pdf", ingest_pdf(state), <<>>)
    /\ stage' = AfterIngestEdges[route_after_ingest(state')]

DetectPdfType ==
    \E out \in DetectOutcomes :
       /\ Step("detect_pdf_type", detect_pdf_type(state, out),
               <<Call("document_tools.detect_pdf_type", out)>>)
       /\ stage' = PdfTypeEdges[route_pdf_type(state')]

ExtractText ==
    \E out \in ExtractOutcomes :
       /\ Step("extract_text", extract_text(state, out),
               <<Call("document_tools.extract_text", out)>>)
       /\ stage' = StaticEdges["extract_text"]

OcrText ==
    \E out \in OcrOutcomes :
       /\ Step("ocr_text", ocr_text(state, out),
               <<Call("document_tools.ocr_text", out)>>)
       /\ stage' = StaticEdges["ocr_text"]

ExtractTextAndOcr ==
    \E text_out \in ExtractOutcomes, ocr_out \in OcrOutcomes :
       /\ Step("extract_text_and_ocr",
               extract_text_and_ocr(state, text_out, ocr_out),
               <<Call("document_tools.extract_text", text_out),
                 Call("document_tools.ocr_text", ocr_out)>>)
       /\ stage' = StaticEdges["extract_text_and_ocr"]

MathExtraction ==
    /\ Step("math_extraction", math_extraction(state),
            <<Call("document_tools.extract_math_latex",
                   Returns(state'.latex_snippets))>>)
    /\ stage' = StaticEdges["math_extraction"]

MergeAndNormalize ==
    /\ Step("merge_and_normalize", merge_and_normalize(state),
            <<Call("document_tools.merge_and_normalize",
                   Returns(state'.normalized_problem))>>)
    /\ stage' = StaticEdges["merge_and_normalize"]

ParseProblem ==
    /\ Step("parse_problem", parse_problem(state),
            <<Call("parser.invoke", Returns(state'.parse_result))>>)
    /\ stage' = StaticEdges["parse_problem"]

PlanSolution ==
    /\ Step("plan_solution", plan_solution(state),
            <<Call("planner.invoke", Returns([steps |-> state'.plan_steps]))>>)
    /\ stage' = StaticEdges["plan_solution"]

SolveWithTools ==
    LET parse_result == Get(state, "parse_result", EmptyDict)
        fn == MathFn(Get(parse_result, "operation", "simplify"))
    IN IF Truthy(Get(parse_result, "expression", None))
       THEN \E out \in MathOutcomes(fn) :
               /\ Step("solve_with_tools", solve_with_tools(state, out),
                       <<Call("math_tools." \o fn, out)>>)
               /\ stage' = StaticEdges["solve_with_tools"]
       ELSE /\ Step("solve_with_tools", solve_with_tools(state, NoCall), <<>>)
            /\ stage' = StaticEdges["solve_with_tools"]

VerifySolution ==
    /\ Step("verify_solution", verify_solution(state), <<>>)
    /\ stage' = AfterVerifyEdges[route_after_verify(state')]

Explain ==
    /\ Step("explain", explain(state),
            <<Call("explainer.invoke", Returns(state'.final_response))>>)
    /\ stage' = StaticEdges["explain"]

FinalizeFailure ==
    /\ Step("finalize_failure", finalize_failure(state), <<>>)
    /\ stage' = StaticEdges["finalize_failure"]

Next ==
    \/ IngestPdf
    \/ DetectPdfType
    \/ ExtractText
    \/ OcrText
    \/ ExtractTextAndOcr
    \/ MathExtraction
    \/ MergeAndNormalize
    \/ ParseProblem
    \/ PlanSolution
    \/ SolveWithTools
    \/ VerifySolution
    \/ Explain
    \/ FinalizeFailure

Spec == Init /\ [][Next]_vars

\* graph.invoke runs every enabled node: the executor never pauses.
FairSpec == Spec /\ WF_vars(Next)

TypeOK ==
    /\ stage \in DOMAIN StaticEdges \cup {"ingest_pdf", "detect_pdf_type",
                                          "verify_solution", "END"}
    /\ state.retries \in 0..(MaxRetriesBound + 2)
    /\ state.max_retries \in 0..(MaxRetriesBound + 1)

(***************************************************************************)
(* The pure functions on their own: verify_solution and route_after_verify *)
(* applied once to every state of a bounded set of inputs.                 *)
(***************************************************************************)
Candidates ==
    {NoAnswer}
       \cup {[kind |-> "int", val |-> v] : v \in {-1, 0, 999, 1000}}
       \cup {[kind |-> "numstr", val |-> v] : v \in {-1, 0, 5, 999, 1000}}
       \cup {[kind |-> "float", halves |-> h] : h \in {-3, -1, 1999, 2000}}
       \cup {[kind |-> "expr", text |-> "2*x"], [kind |-> "list", text |-> "3"]}

Metadatas ==
    {EmptyDict,
     [answer_format |-> "integer"],
     [answer_format |-> "integer", range |-> <<0, 999>>],
     [answer_format |-> "integer", range |-> <<-5, 5>>],
     [answer_format |-> "expression", range |-> <<0, 999>>]}

Verifications ==
    {[ok |-> FALSE, reason |-> "not_verified"],
     [ok |-> TRUE, reason |-> "passed"],
     [reason |-> "not_verified"]}

\* verification records finalize_failure may find: with a reason, with an
\* empty reason, without the key, and the default {} of state.get.
FailureVerifications ==
    {[ok |-> FALSE, reason |-> "not_verified"],
     [ok |-> FALSE, reason |-> "answer_out_of_range_0_999"],
     [ok |-> FALSE, reason |-> ""],
     [ok |-> FALSE, reason |-> None],
     [ok |-> FALSE],
     EmptyDict}

\* error lists: str(exc) of an exception raised without a message is "".
ErrorLists ==
    {<<>>,
     <<"PDF file not found: missing.pdf">>,
     <<"cannot open file", "ocr failed">>,
     <<"">>,
     <<"", "ocr failed">>}

InitPure ==
    /\ \/ /\ \E c \in Candidates, md \in Metadatas, v \in Verifications,
                r \in 0..(MaxRetriesBound + 1), m \in MaxRetriesInputs :
                state = [make_initial_state("problem.pdf", m) EXCEPT
                            !.candidate_answer = c, !.metadata = md,
                            !.verification = v, !.retries = r]
          /\ stage \in {"verify_solution", "route_after_verify"}
       \/ /\ \E v \in FailureVerifications, e \in ErrorLists,
                m \in MaxRetriesInputs :
                state = [make_initial_state("problem.pdf", m) EXCEPT
                            !.verification = v, !.errors = e]
          /\ stage = "finalize_failure"
    /\ trace = <<>>
    /\ calls = <<>>
    /\ last_patch = EmptyDict

ApplyVerifySolution ==
    /\ trace = <<>>
    /\ VerifySolution

ApplyRouteAfterVerify ==
    /\ stage = "route_after_verify"
    /\ stage' = AfterVerifyEdges[route_after_verify(state)]
    /\ trace' = <<"route_after_verify">>
    /\ UNCHANGED <<state, calls, last_patch>>

ApplyFinalizeFailure ==
    /\ trace = <<>>
    /\ FinalizeFailure

NextPure ==
    \/ ApplyVerifySolution
    \/ ApplyRouteAfterVerify
    \/ ApplyFinalizeFailure

SpecPure == InitPure /\ [][NextPure]_vars

(***************************************************************************)
(* Histories read off `trace`.                                             *)
(***************************************************************************)
Ran(node) == Count(node, trace)

LastRan == IF trace = <<>> THEN "START" ELSE trace[Len(trace)]

\* node that follows the i-th node of the run (the pending one for the last)
Follower(i) == IF i < Len(trace) THEN trace[i + 1] ELSE stage

Replans ==
    Cardinality({i \in 1..Len(trace) :
                    trace[i] = "verify_solution" /\ Follower(i) = "plan_solution"})

FinalizedAfterVerify ==
    \E i \in 1..Len(trace) :
       trace[i] = "verify_solution" /\ Follower(i) = "finalize_failure"

StartsWith(str, prefix) ==
    Len(prefix) <= Len(str) /\ SubSeq(str, 1, Len(prefix)) = prefix

SolveLogs ==
    {i \in 1..Len(state.tool_logs) : state.tool_logs[i].tool = "solve_with_tools"}

\* every attempt of the run returned an integer outside [0, 999]
EveryAnswerOutOfRange ==
    /\ SolveLogs # {}
    /\ \A i \in SolveLogs :
          /\ state.tool_logs[i].success
          /\ state.tool_logs[i].payload.candidate_answer
                = [kind |-> "numstr", val |-> 1000]

(***************************************************************************)
(* C1: every run started from make_initial_state reaches a terminal stage  *)
(* (explain or finalize_failure) after finitely many stage transitions,    *)
(* whatever max_retries >= 0, the outcomes of the caught collaborator      *)
(* calls and the answers of the solver are: the plan -> solve -> verify    *)
(* cycle cannot run for ever.  Checked under FairSpec.                     *)
(***************************************************************************)
C1_RunTerminates == <>(stage = "END" /\ LastRan \in TerminalNodes)

C1_Witness ==
    /\ stage = "END"
    /\ LastRan = "finalize_failure"
    /\ state.max_retries >= 2
    /\ Ran("verify_solution") = state.max_retries
    /\ state.errors # <<>>

(***************************************************************************)
(* C2: the plan_solution -> solve_with_tools -> verify_solution cycle runs *)
(* at most max_retries + 1 times in any run.                               *)
(***************************************************************************)
C2_CycleBound ==
    /\ Ran("plan_solution") <= state.max_retries + 1
    /\ Ran("solve_with_tools") <= state.max_retries + 1
    /\ Ran("verify_solution") <= state.max_retries + 1

C2_Witness ==
    /\ stage = "END"
    /\ LastRan = "finalize_failure"
    /\ Ran("plan_solution") >= 2
    /\ Ran("verify_solution") = Ran("plan_solution")

(***************************************************************************)
(* C3: with max_retries = 1 and a candidate answer outside [0, 999] on     *)
(* every attempt, the finished run has visited plan_solution exactly       *)
(* twice, retries is 2 and the reason of final_response begins with        *)
(* "answer_out_of_range_0_999".                                            *)
(***************************************************************************)
C3_OutOfRangeScenario ==
    (stage = "END" /\ state.max_retries = 1 /\ EveryAnswerOutOfRange)
       => /\ Ran("plan_solution") = 2
          /\ state.retries = 2
          /\ StartsWith(state.final_response,
                "Failed to solve problem. reason=answer_out_of_range_0_999")

(***************************************************************************)
(* C4: when the input file does not exist, the final state has             *)
(* final_response = "Input PDF file was not found.".                       *)
(***************************************************************************)
C4_MissingFileResponse ==
    (stage = "END" /\ state.input_pdf_path \notin ExistingFiles)
       => state.final_response = "Input PDF file was not found."

(***************************************************************************)
(* C5: when errors is non-empty as ingest completes the next stage is      *)
(* finalize_failure, otherwise detect_pdf_type; a run that goes from       *)
(* ingest to finalize_failure runs no other stage, makes no collaborator   *)
(* call, leaves tool_logs empty and retries 0.                             *)
(***************************************************************************)
C5_IngestShortCircuit ==
    /\ Len(trace) = 1 =>
          /\ trace[1] = "ingest_pdf"
          /\ state.errors # <<>> => stage = "finalize_failure"
          /\ state.errors = <<>> => stage = "detect_pdf_type"
    /\ (Len(trace) >= 1 /\ Follower(1) = "finalize_failure") =>
          /\ \A i \in 1..Len(trace) : trace[i] \in {"ingest_pdf", "finalize_failure"}
          /\ state.tool_logs = <<>>
          /\ state.retries = 0
          /\ calls = <<>>

C5_Witness ==
    /\ stage = "END"
    /\ trace = <<"ingest_pdf", "finalize_failure">>
    /\ state.errors # <<>>

(***************************************************************************)
(* C6: route_after_verify leads to explain when verification.ok is true,   *)
(* otherwise to plan_solution when retries < max_retries, otherwise to     *)
(* finalize_failure, for every combination of the three.  Checked under    *)
(* SpecPure.                                                               *)
(***************************************************************************)
C6_RouteAfterVerify ==
    trace = <<"route_after_verify">> =>
       LET ok == "ok" \in DOMAIN state.verification /\ state.verification.ok
       IN /\ ok => stage = "explain"
          /\ (~ok /\ state.retries < state.max_retries) => stage = "plan_solution"
          /\ (~ok /\ state.retries >= state.max_retries) => stage = "finalize_failure"

C6_Witness ==
    /\ trace = <<"route_after_verify">>
    /\ state.verification = [ok |-> FALSE, reason |-> "not_verified"]
    /\ state.retries = state.max_retries
    /\ state.retries > 0
    /\ stage = "finalize_failure"

(***************************************************************************)
(* C7: verify_solution yields {ok: false, candidate_answer_missing} when   *)
(* the candidate is absent; otherwise, with answer_format integer,         *)
(* {ok: false, answer_out_of_range_<low>_<high>} when the candidate        *)
(* coerces to an integer outside [low, high]; and {ok: true, passed} in    *)
(* every other case, also when the candidate does not coerce.  Checked     *)
(* under SpecPure.                                                         *)
(***************************************************************************)
\* the integer a candidate coerces to, as a set (empty: it does not coerce)
CoercesTo(c) ==
    CASE c.kind \in {"int", "numstr"} -> {c.val}
      [] c.kind = "float" ->
            {n \in -1001..1001 :
                \/ c.halves >= 0 /\ 2 * n <= c.halves /\ c.halves < 2 * n + 2
                \/ c.halves < 0 /\ 2 * n - 2 < c.halves /\ c.halves <= 2 * n}
      [] OTHER -> {}

C7_VerifyOutcome ==
    trace = <<"verify_solution">> =>
       LET c == state.candidate_answer
           md == state.metadata
           range == IF "range" \in DOMAIN md THEN md.range ELSE <<0, 999>>
           integer == "answer_format" \in DOMAIN md /\ md.answer_format = "integer"
           outside == \E n \in CoercesTo(c) : n < range[1] \/ n > range[2]
           label == IF range = <<0, 999>> THEN "answer_out_of_range_0_999"
                    ELSE "answer_out_of_range_-5_5"
       IN /\ c = NoAnswer =>
                state.verification = [ok |-> FALSE, reason |-> "candidate_answer_missing"]
          /\ (c # NoAnswer /\ integer /\ outside) =>
                state.verification = [ok |-> FALSE, reason |-> label]
          /\ (c # NoAnswer /\ ~(integer /\ outside)) =>
                state.verification = [ok |-> TRUE, reason |-> "passed"]

C7_Witness ==
    /\ trace = <<"verify_solution">>
    /\ state.candidate_answer = [kind |-> "float", halves |-> 2000]
    /\ state.metadata = [answer_format |-> "integer", range |-> <<0, 999>>]
    /\ state.verification.reason = "answer_out_of_range_0_999"

(***************************************************************************)
(* C8: retries never decreases; a verify_solution step whose result has    *)
(* ok = false adds exactly 1 to it, one whose result has ok = true leaves  *)
(* it unchanged, and no other stage changes it.                            *)
(***************************************************************************)
C8_RetriesSteps ==
    [][ /\ state'.retries >= state.retries
        /\ (stage = "verify_solution" /\ ~state'.verification.ok)
              => state'.retries = state.retries + 1
        /\ (stage = "verify_solution" /\ state'.verification.ok)
              => state'.retries = state.retries
        /\ stage # "verify_solution" => state'.retries = state.retries ]_vars

C8_Witness ==
    /\ LastRan = "verify_solution"
    /\ state.verification.ok
    /\ state.retries = 2
    /\ Ran("verify_solution") = 3

(***************************************************************************)
(* C9 as stated: retries grows only on a verification failure followed by  *)
(* a replan, a failure routed to finalize_failure leaves it unchanged, and *)
(* the final retries is the number of replans.                             *)
(***************************************************************************)
C9_Original ==
    [][ /\ state'.retries # state.retries
              => /\ state'.retries = state.retries + 1
                 /\ stage = "verify_solution"
                 /\ stage' = "plan_solution"
        /\ (stage = "verify_solution" /\ stage' = "finalize_failure")
              => state'.retries = state.retries
        /\ stage' = "END" => state'.retries = Replans' ]_vars

(***************************************************************************)
(* C9 amended: retries grows by exactly 1 on every verification failure,   *)
(* also on the one routed to finalize_failure; so retries is the number of *)
(* replans, plus one once a verification failure has been routed to        *)
(* finalize_failure.                                                       *)
(***************************************************************************)
C9_RetriesCountFailures ==
    state.retries = Replans + (IF FinalizedAfterVerify THEN 1 ELSE 0)

C9_Witness ==
    /\ stage = "END"
    /\ LastRan = "finalize_failure"
    /\ Replans = 2
    /\ state.retries = 3

(***************************************************************************)
(* C10: tool_logs is append-only: across every stage transition the        *)
(* sequence before the stage is a prefix of the sequence after it, also    *)
(* across replans and across extract_text_and_ocr.                         *)
(***************************************************************************)
C10_ToolLogsAppendOnly ==
    [][IsPrefix(state.tool_logs, state'.tool_logs)]_vars

C10_Witness ==
    /\ Ran("extract_text_and_ocr") = 1
    /\ Ran("solve_with_tools") = 2
    /\ LastRan = "solve_with_tools"
    /\ Len(state.tool_logs) = 6
    /\ state.tool_logs[2].tool = "extract_text"
    /\ state.tool_logs[3].tool = "ocr_text"

(***************************************************************************)
(* Histories read off `calls`.                                             *)
(***************************************************************************)
\* the calls made by the step from the unprimed to the primed state
NewCalls == SubSeq(calls', Len(calls) + 1, Len(calls'))

FailedCalls == {i \in 1..Len(calls) : ~calls[i].out.ok}

(***************************************************************************)
(* C11 as stated: every stage lengthens tool_logs by exactly the number of *)
(* collaborator calls it made (document service, math service, parser,     *)
(* planner, explainer).                                                    *)
(***************************************************************************)
C11_Original ==
    [][Len(state'.tool_logs) = Len(state.tool_logs) + Len(NewCalls)]_vars

(***************************************************************************)
(* C11 amended: every stage lengthens tool_logs by a number fixed per      *)
(* stage: 1 for detect_pdf_type, extract_text, ocr_text, math_extraction   *)
(* and solve_with_tools (also when no expression is present and no math    *)
(* call is made), 2 for extract_text_and_ocr, 0 for every other stage;     *)
(* the calls of merge_and_normalize, the parser, the planner and the       *)
(* explainer are not logged.                                               *)
(***************************************************************************)
LoggedEntries(node) ==
    CASE node \in {"detect_pdf_type", "extract_text", "ocr_text",
                   "math_extraction", "solve_with_tools"} -> 1
      [] node = "extract_text_and_ocr" -> 2
      [] OTHER -> 0

C11_LoggedPerStage ==
    [][Len(state'.tool_logs) = Len(state.tool_logs) + LoggedEntries(stage)]_vars

C11_Witness ==
    /\ stage = "END"
    /\ LastRan = "explain"
    /\ Ran("extract_text_and_ocr") = 1
    /\ Ran("solve_with_tools") = 2
    /\ Len(state.tool_logs) = 6
    /\ Len(calls) = 11

(***************************************************************************)
(* C12: when the collaborator call of detect_pdf_type, extract_text,       *)
(* ocr_text or solve_with_tools fails, the stage appends exactly one entry *)
(* with success = false to tool_logs and exactly one message to errors,    *)
(* keeps all prior entries of both, and hands over to its normal           *)
(* successor; the run then goes on to a terminal stage.  Checked under     *)
(* FairSpec.                                                               *)
(***************************************************************************)
CaughtStages == {"detect_pdf_type", "extract_text", "ocr_text", "solve_with_tools"}

NormalSuccessor(node) ==
    CASE node = "detect_pdf_type" -> "extract_text_and_ocr"
      [] node \in {"extract_text", "ocr_text"} -> "math_extraction"
      [] node = "solve_with_tools" -> "verify_solution"

C12_FailureAbsorbed ==
    /\ [][(stage \in CaughtStages /\ Len(NewCalls) = 1 /\ ~NewCalls[1].out.ok) =>
             LET logs == state'.tool_logs
             IN /\ Len(logs) = Len(state.tool_logs) + 1
                /\ SubSeq(logs, 1, Len(state.tool_logs)) = state.tool_logs
                /\ logs[Len(logs)].success = FALSE
                /\ logs[Len(logs)].tool = stage
                /\ logs[Len(logs)].error = NewCalls[1].out.error
                /\ state'.errors = Append(state.errors, NewCalls[1].out.error)
                /\ stage' = NormalSuccessor(stage)]_vars
    /\ (FailedCalls # {}) ~> (stage = "END" /\ LastRan \in TerminalNodes)

C12_Witness ==
    /\ stage = "END"
    /\ Len(state.errors) = 3
    /\ \E i, j, k \in FailedCalls :
          /\ calls[i].call = "document_tools.detect_pdf_type"
          /\ calls[j].call = "document_tools.ocr_text"
          /\ calls[k].call = "math_tools.differentiate"

(***************************************************************************)
(* C13: every run ends in a terminal stage with a non-empty                *)
(* final_response; after explain it contains the candidate answer and the  *)
(* substring "passed", after finalize_failure it has the form              *)
(* "Failed to solve problem. reason=<reason>".  Checked under FairSpec.    *)
(***************************************************************************)
FailurePrefix == "Failed to solve problem. reason="

C13_EndState ==
    stage = "END" =>
       /\ LastRan \in TerminalNodes
       /\ state.final_response # ""
       /\ LastRan = "explain" =>
             /\ Contains(state.final_response, StrOfAnswer(state.candidate_answer))
             /\ Contains(state.final_response, "passed")
       /\ LastRan = "finalize_failure" =>
             /\ StartsWith(state.final_response, FailurePrefix)
             /\ Len(state.final_response) > Len(FailurePrefix)

C13_FinalResponse == []C13_EndState /\ <>(stage = "END")

C13_Witness ==
    /\ stage = "END"
    /\ LastRan = "explain"
    /\ state.candidate_answer = [kind |-> "list", text |-> "3"]
    /\ state.final_response = "Candidate answer: ['3']\nVerification: passed"

(***************************************************************************)
(* C14: when the math-service call of solve_with_tools fails,              *)
(* candidate_answer is absent in the state after the stage, in every       *)
(* iteration of the retry loop (also in a replan iteration that follows    *)
(* one in which the solver returned a value), and the verification that    *)
(* follows reports candidate_answer_missing.                               *)
(***************************************************************************)
LastLog == state.tool_logs[Len(state.tool_logs)]

C14_FailedSolveLeavesNoAnswer ==
    [][ /\ (stage = "solve_with_tools" /\ Len(NewCalls) = 1 /\ ~NewCalls[1].out.ok)
              => state'.candidate_answer = NoAnswer
        /\ (stage = "verify_solution" /\ ~LastLog.success)
              => state'.verification
                    = [ok |-> FALSE, reason |-> "candidate_answer_missing"] ]_vars

(***************************************************************************)
(* C15 as stated: final_response is the empty string in every state        *)
(* reached before a terminal stage has run.                                *)
(***************************************************************************)
NoTerminalRan == Ran("explain") = 0 /\ Ran("finalize_failure") = 0

C15_Original == NoTerminalRan => state.final_response = ""

(***************************************************************************)
(* C15 amended: before a terminal stage has run final_response is the      *)
(* empty string, except after an ingest that found the input file missing, *)
(* which sets it to "Input PDF file was not found."; apart from that       *)
(* ingest only a terminal stage changes it.                                *)
(***************************************************************************)
FileMissing == state.input_pdf_path \notin ExistingFiles

C15_EmptyUntilTerminal ==
    /\ [](NoTerminalRan =>
             \/ state.final_response = ""
             \/ /\ FileMissing
                /\ trace = <<"ingest_pdf">>
                /\ state.final_response = "Input PDF file was not found.")
    /\ [][state'.final_response # state.final_response =>
             \/ stage \in TerminalNodes
             \/ stage = "ingest_pdf" /\ FileMissing]_vars

C15_Witness ==
    /\ trace = <<"ingest_pdf">>
    /\ stage = "finalize_failure"
    /\ FileMissing
    /\ state.final_response = "Input PDF file was not found."

(***************************************************************************)
(* C16: the routing on the document type is total over digital, scanned,   *)
(* mixed and unknown: digital goes to extract_text, scanned to ocr_text,   *)
(* mixed and unknown to extract_text_and_ocr; a run whose detection fails  *)
(* keeps the default type unknown and proceeds to extract_text_and_ocr.    *)
(***************************************************************************)
RouteOfType(pdf_type) ==
    CASE pdf_type = "digital" -> "extract_text"
      [] pdf_type = "scanned" -> "ocr_text"
      [] pdf_type \in {"mixed", "unknown"} -> "extract_text_and_ocr"

C16_RouteKindTotal ==
    /\ [](state.pdf_type \in PdfTypes)
    /\ [][stage = "detect_pdf_type" =>
             /\ stage' = RouteOfType(state'.pdf_type)
             /\ ~NewCalls[1].out.ok =>
                   /\ state'.pdf_type = "unknown"
                   /\ stage' = "extract_text_and_ocr"]_vars

C16_Witness ==
    /\ trace = <<"ingest_pdf", "detect_pdf_type">>
    /\ calls = <<Call("document_tools.detect_pdf_type", Raises("cannot open file"))>>
    /\ state.pdf_type = "unknown"
    /\ stage = "extract_text_and_ocr"

(***************************************************************************)
(* C17: applying the patch of a stage overwrites exactly the keys of the   *)
(* patch (last write wins) and leaves every other key unchanged; an empty  *)
(* patch leaves the state unchanged, and applying a patch a second time    *)
(* gives the state obtained by applying it once.                           *)
(***************************************************************************)
C17_PatchMerge ==
    [][/\ DOMAIN state' = DOMAIN state \cup DOMAIN last_patch'
       /\ \A k \in DOMAIN state' :
             IF k \in DOMAIN last_patch'
             THEN state'[k] = last_patch'[k]
             ELSE state'[k] = state[k]
       /\ DOMAIN last_patch' = {} => state' = state
       /\ Merge(state', last_patch') = state']_vars

C17_Witness ==
    /\ trace = <<"ingest_pdf", "detect_pdf_type">>
    /\ DOMAIN last_patch = {"pdf_type", "tool_logs"}
    /\ state.pdf_type = "scanned"
    /\ Len(state.tool_logs) = 1
    /\ state.errors = <<>>
    /\ state.normalized_problem = ""

(***************************************************************************)
(* C18 as stated: finalize_failure answers "Failed to solve problem.       *)
(* reason=R", R being verification.reason if present and non-empty, else   *)
(* the errors joined with "; " if errors is non-empty, else                *)
(* "unknown_failure".                                                      *)
(***************************************************************************)
HasReason ==
    Get(state.verification, "reason", None) \notin {None, ""}

RunInputs == {"max_retries", "input_pdf_path", "run_id"}

C19_RunInputsFixed ==
    /\ [](/\ state.run_id = make_initial_state("", 0).run_id
          /\ state.input_pdf_path \in InputPaths
          /\ state.max_retries \in MaxRetriesInputs
          /\ DOMAIN last_patch \cap RunInputs = {})
    /\ [][\A k \in RunInputs : state'[k] = state[k]]_vars

C19_Witness ==
    /\ stage = "END"
    /\ LastRan = "finalize_failure"
    /\ Ran("plan_solution") = 3
    /\ state.retries = 3
    /\ state.max_retries = 3
    /\ state.input_pdf_path = "problem.pdf"

(***************************************************************************)
(* C20: extract_text_and_ocr is equivalent to running extract_text and     *)
(* then ocr_text as two consecutive stages: for every success / failure    *)
(* combination of the two calls the state equals the one obtained by       *)
(* merging the extract_text patch and then the ocr_text patch, with        *)
(* exactly two new tool_logs entries (text first) and the errors of both   *)
(* calls (text first).                                                     *)
(***************************************************************************)
ErrorsOf(out) == IF out.ok THEN <<>> ELSE <<out.error>>

C20_CombinedIsSequential ==
    [][stage = "extract_text_and_ocr" =>
          LET text_out == NewCalls[1].out
              ocr_out == NewCalls[2].out
              after_text == Merge(state, extract_text(state, text_out))
              after_ocr == Merge(after_text, ocr_text(after_text, ocr_out))
              n == Len(state.tool_logs)
          IN /\ state' = after_ocr
             /\ Len(state'.tool_logs) = n + 2
             /\ SubSeq(state'.tool_logs, 1, n) = state.tool_logs
             /\ state'.tool_logs[n + 1].tool = "extract_text"
             /\ state'.tool_logs[n + 1].success = text_out.ok
             /\ state'.tool_logs[n + 2].tool = "ocr_text"
             /\ state'.tool_logs[n + 2].success = ocr_out.ok
             /\ state'.errors =
                   state.errors \o ErrorsOf(text_out) \o ErrorsOf(ocr_out)]_vars

C20_Witness ==
    /\ LastRan = "extract_text_and_ocr"
    /\ stage = "math_extraction"
    /\ Len(state.tool_logs) = 3
    /\ ~state.tool_logs[2].success
    /\ ~state.tool_logs[3].success
    /\ state.errors = <<"PyMuPDF is not installed.",
                        "OCR dependencies are not fully installed.">>

(***************************************************************************)
(* C21: when parse_result has no expression, solve_with_tools calls no     *)
(* math-service operation and candidate_answer stays absent, and the       *)
(* following verification has reason "candidate_answer_missing" and adds 1 *)
(* to retries; when an expression is present the operation called is       *)
(* chosen by parse_result.operation (differentiate, integrate,             *)
(* solve_equation, anything else simplify); in both cases exactly one      *)
(* tool_logs entry is appended.                                            *)
(***************************************************************************)
HasExpression ==
    Get(state.parse_result, "expression", None) \notin {None, ""}

ExpectedMathCall ==
    LET operation == Get(state.parse_result, "operation", "simplify")
    IN CASE operation = "differentiate"  -> "math_tools.differentiate"
         [] operation = "integrate"      -> "math_tools.integrate_definite"
         [] operation = "solve_equation" -> "math_tools.solve_equation"
         [] OTHER                        -> "math_tools.simplify_expr"

C21_SolveDispatch ==
    [][/\ stage = "solve_with_tools" =>
             /\ Len(state'.tool_logs) = Len(state.tool_logs) + 1
             /\ state'.tool_logs[Len(state'.tool_logs)].tool = "solve_with_tools"
             /\ IF HasExpression
                THEN /\ Len(NewCalls) = 1
                     /\ NewCalls[1].call = ExpectedMathCall
                ELSE /\ NewCalls = <<>>
                     /\ state.candidate_answer = NoAnswer
                     /\ state'.candidate_answer = NoAnswer
       /\ (stage = "verify_solution" /\ ~HasExpression) =>
             /\ state'.verification =
                   [ok |-> FALSE, reason |-> "candidate_answer_missing"]
             /\ state'.retries = state.retries + 1]_vars

C21_Witness ==
    /\ LastRan = "verify_solution"
    /\ Ran("solve_with_tools") = 2
    /\ ~HasExpression
    /\ \A i \in 1..Len(calls) : ~StartsWith(calls[i].call, "math_tools.")
    /\ state.candidate_answer = NoAnswer
    /\ state.verification.reason = "candidate_answer_missing"
    /\ state.retries = 2

(***************************************************************************)
(* C22: in every run started from make_initial_state, verification.reason  *)
(* is a non-empty string in every reachable state ("not_verified" at the   *)
(* start), so finalize_failure never uses the joined errors nor            *)
(* "unknown_failure": the reason of a failure response is always one of    *)
(* "not_verified", "candidate_answer_missing", "answer_out_of_range_0_999",*)
(* even when errors is non-empty.                                          *)
(***************************************************************************)
FailureReasons ==
    {"not_verified", "candidate_answer_missing", "answer_out_of_range_0_999"}

C22_ReasonAlwaysFromVerification ==
    /\ [](/\ "reason" \in DOMAIN state.verification
          /\ state.verification.reason \notin {None, ""}
          /\ ~state.verification.ok => state.verification.reason \in FailureReasons)
    /\ [][stage = "finalize_failure" =>
             /\ state'.final_response =
                   FailurePrefix \o state.verification.reason
             /\ state.verification.reason \in FailureReasons]_vars

C22_Witness ==
    /\ stage = "END"
    /\ LastRan = "finalize_failure"
    /\ Ran("verify_solution") = 2
    /\ Len(state.errors) = 3
    /\ state.final_response =
          "Failed to solve problem. reason=answer_out_of_range_0_999"

(***************************************************************************)
(* C23: exactly one terminal stage runs in a run, and it runs exactly      *)
(* once; explain runs only in a state with verification.ok = true;         *)
(* finalize_failure runs only directly after a failed ingest or after a    *)
(* verify_solution that left verification.ok = false and                   *)
(* retries >= max_retries.                                                 *)
(***************************************************************************)
TerminalRuns == Ran("explain") + Ran("finalize_failure")

C23_OneTerminalStage ==
    /\ [](TerminalRuns <= 1 /\ (stage = "END" <=> TerminalRuns = 1))
    /\ <>(stage = "END")
    /\ [][/\ stage = "explain" =>
                /\ LastRan = "verify_solution"
                /\ Get(state.verification, "ok", FALSE)
          /\ stage = "finalize_failure" =>
                \/ /\ trace = <<"ingest_pdf">>
                   /\ state.errors # <<>>
                \/ /\ LastRan = "verify_solution"
                   /\ ~Get(state.verification, "ok", FALSE)
                   /\ state.retries >= state.max_retries
          /\ stage \in TerminalNodes => stage' = "END"]_vars

C23_Witness ==
    /\ stage = "END"
    /\ LastRan = "finalize_failure"
    /\ Ran("finalize_failure") = 1
    /\ Ran("explain") = 0
    /\ Ran("verify_solution") = 3
    /\ state.retries = state.max_retries

(***************************************************************************)
(* C24: in a run where every verification fails (max_retries >= 0),        *)
(* plan_solution, solve_with_tools and verify_solution each execute        *)
(* exactly max(1, max_retries) times, and retries equals                   *)
(* max(1, max_retries) in the final state.                                 *)
(***************************************************************************)
EveryVerificationFailed ==
    /\ stage = "END"
    /\ LastRan = "finalize_failure"
    /\ Ran("verify_solution") > 0

FailedCycles == MaxOf({1, state.max_retries})

C24_FailedRunCycles ==
    /\ state.max_retries >= 0
    /\ (Ran("verify_solution") > 0 /\ Ran("explain") = 0) =>
          /\ state.retries <= FailedCycles
          /\ Ran("plan_solution") <= FailedCycles
    /\ EveryVerificationFailed =>
          /\ Ran("plan_solution") = FailedCycles
          /\ Ran("solve_with_tools") = FailedCycles
          /\ Ran("verify_solution") = FailedCycles
          /\ state.retries = FailedCycles

C24_Witness ==
    /\ EveryVerificationFailed
    /\ state.max_retries = 0
    /\ Ran("plan_solution") = 1
    /\ Ran("solve_with_tools") = 1
    /\ Ran("verify_solution") = 1
    /\ state.retries = 1

(***************************************************************************)
(* C25: solve_with_tools reads only parse_result, which no stage changes   *)
(* after parse_problem, and never plan_steps or retries; so with a         *)
(* deterministic math service every iteration of the retry loop yields the *)
(* same candidate_answer and the same verification result, and a run whose *)
(* first verification fails never reaches explain, whatever max_retries.   *)
(***************************************************************************)
MathCalls(cs) == {i \in 1..Len(cs) : StartsWith(cs[i].call, "math_tools.")}

\* the math service answered every call of the run in the same way
Deterministic(cs) ==
    \A i, j \in MathCalls(cs) : cs[i].call = cs[j].call => cs[i].out = cs[j].out

FirstVerificationFailed ==
    \E i \in 1..Len(trace) :
       /\ trace[i] = "verify_solution"
       /\ \A j \in 1..(i - 1) : trace[j] # "verify_solution"
       /\ Follower(i) # "explain"

SolveOutcome == IF NewCalls = <<>> THEN NoCall ELSE NewCalls[1].out

C25_RetryLoopRepeats ==
    /\ [][/\ (Ran("parse_problem") > 0 /\ stage # "END") =>
                state'.parse_result = state.parse_result
          /\ stage = "solve_with_tools" =>
                /\ \A p \in {<<>>, <<"replan">>}, r \in 0..(MaxRetriesBound + 1) :
                      solve_with_tools([state EXCEPT !.plan_steps = p,
                                                     !.retries = r],
                                       SolveOutcome)
                         = last_patch'
                /\ (Ran("solve_with_tools") > 0 /\ Deterministic(calls')) =>
                      state'.candidate_answer = state.candidate_answer
          /\ (stage = "verify_solution" /\ Ran("verify_solution") > 0
                /\ Deterministic(calls)) =>
                state'.verification = state.verification]_vars
    /\ []((Deterministic(calls) /\ FirstVerificationFailed) =>
             (Ran("explain") = 0 /\ stage # "explain"))

C25_Witness ==
    /\ stage = "END"
    /\ LastRan = "finalize_failure"
    /\ Ran("solve_with_tools") = 3
    /\ state.max_retries = 3
    /\ Cardinality(MathCalls(calls)) = 3
    /\ Deterministic(calls)
    /\ state.candidate_answer = [kind |-> "numstr", val |-> 1000]
    /\ state.verification.reason = "answer_out_of_range_0_999"

====
